---- MODULE Spec2Model ----
(***************************************************************************)
(* A model of sord (src/src/sord.c): one world of interned nodes, one      *)
(* model (quad store) with its GSequence indices, and one iterator.        *)
(*                                                                         *)
(* An index is a GSequence of keys; it is modelled as a TLA+ sequence, a   *)
(* GSequenceIter as a position 1..Len+1 (Len+1 is the end iterator).       *)
(* Nodes are the pointers 1, 2, 3; 0 is the null pointer, and -n is the    *)
(* dangling pointer to a freed allocation of node n.                       *)
(***************************************************************************)
EXTENDS Integers, Sequences, FiniteSets, TLC

\* ------------------------------------------------------------------ bounds
\* Entries an index may hold before sord_add is no longer called, for the
\* caller that also removes quads and for the caller that only searches.
MaxQuads == 2
MaxFindQuads == 3
\* Bound on world->n_nodes (node constructor calls that allocate).
MaxCreated == 4
\* No quad is removed once a counter it decrements (n_quads, node->refs) has
\* sunk this far below 0.
MaxDebt == 1
\* No quad is added once the refs of one of its nodes has reached this.
MaxRefs == 3
\* The calls of a constructor with the same inputs are counted up to this.
MaxCalls == 2

\* --------------------------------------------------------------- constants
NUM_ORDERS == 12
TUP_LEN == 4
SORD_URI == 1
SORD_BLANK == 2
SORD_LITERAL == 3

SPO == 0
SOP == 1
OPS == 2
OSP == 3
PSO == 4
POS == 5
GSPO == 6

DEFAULT_ORDER == SPO
DEFAULT_GRAPH_ORDER == GSPO

SORD_SPO == 1
SORD_OPS == 4

Null == 0

\* Quads of indices for each order (row order+1, 0-based slot numbers).
orderings ==
  << <<0,1,2,3>>, <<0,2,1,3>>, <<2,1,0,3>>, <<2,0,1,3>>, <<1,0,2,3>>, <<1,2,0,3>>,
     <<3,0,1,2>>, <<3,0,2,1>>, <<3,2,1,0>>, <<3,2,0,1>>, <<3,1,0,2>>, <<3,1,2,0>> >>

\* ------------------------------------------------------------------- nodes
\* The strings the caller makes nodes of, "a" < "b" < "c" (by rank under
\* strcmp), and the language tags "en", "fr" (0: no language).
Str == {1, 2, 3}
Lang == {1, 2}

\* A node is named by what sord_new_node was given when it allocated it:
\* 1..3 the URI of string 1..3, 4..6 the blank of string 1..3, 7..12 the
\* literals of string 1 ("a") with datatype null or the URI 2, and language
\* null, 1 or 2.
UriNode(str) == str
BlankNode(str) == Cardinality(Str) + str
LiteralNode(datatype, str, lang) ==
  2 * Cardinality(Str) + str + (IF datatype = 0 THEN 0 ELSE 3) + lang
Node == 1..12
NodeType(n) == IF n <= 3 THEN SORD_URI ELSE IF n <= 6 THEN SORD_BLANK ELSE SORD_LITERAL
\* Rank of node->buf under strcmp.
NodeStr(n) == IF n <= 3 THEN n ELSE IF n <= 6 THEN n - 3 ELSE 1
\* node->datatype and node->lang
NodeDatatype(n) == IF n >= 10 THEN 2 ELSE 0
NodeLang(n) == IF n >= 7 THEN (n - 7) % 3 ELSE 0

\* The caller's quads (S, P, O, G) and the patterns it searches for.
QuadPool == { <<1,2,3,0>>, <<3,2,1,0>>, <<1,2,3,2>> }
FindPool == QuadPool \cup { <<1,3,2,0>>, <<1,2,3,3>> }
NameStr == {1, 2}
BlankStr == {1}
NodeQuadPool == { <<1,2,1,0>> }
WorldQuadPool == { <<1,2,3,0>>, <<0,2,3,0>> }
WorldPatPool == { <<1,0,0,0>> }
IndexQuadPool == { <<1,2,3,2>> }
TypedQuadPool == { <<1,2,1,0>>, <<1,1,10,0>> }
PatPool ==
  { <<s,p,o,g>> : s \in {0,1}, p \in {0,2}, o \in {0,3}, g \in {0,2} }

VARIABLES
  ndebug,     \* TRUE iff built with NDEBUG (assert compiled out)
  heap_b31,   \* bit 31 of the addresses malloc hands out (0 or 1)
  status,     \* "ok", "abort" (failed assert) or "ub" (undefined behaviour)
  live,       \* nodes interned in world->names (allocated, not freed)
  refs,       \* node->refs
  n_nodes,    \* world->n_nodes
  indices,    \* sord->indices: order -> sequence of keys (domain: non-NULL)
  n_quads,    \* sord->n_quads
  iter,       \* the caller's SordIter
  seen,       \* quads read with sord_iter_get since the iterator was made
  loop,       \* the caller's loop: [pat, n0, nrem], see NoLoop
  last,       \* the last call made: [op, q]
  got,        \* the constructor calls the caller compares: [key, ret, calls]
  held,       \* the nodes the caller got from sord_node_copy and has not freed
  other       \* the second model of the world: [indices, n_quads], see NoModel

vars == <<ndebug, heap_b31, status, live, refs, n_nodes, indices, n_quads,
          iter, seen, loop, last, got, held, other>>

\* ------------------------------------------------------- pointer comparison
\* Low 31 bits of the address of a node (or of a freed allocation of it).
AddrLow31(x) == 4096 + 80 * (IF x < 0 THEN Cardinality(Node) - x ELSE x)

\* (int)((const char*)a - (const char*)b) for a == b or one of them null:
\* the 64-bit difference truncated to 32 bits.
PtrDiffInt(a, b) ==
  IF a = b THEN 0
  ELSE IF b = Null
       THEN IF heap_b31 = 1 THEN (AddrLow31(a) - 2147483647) - 1
                            ELSE AddrLow31(a)
       ELSE IF heap_b31 = 1 THEN (2147483647 - AddrLow31(b)) + 1
                            ELSE 0 - AddrLow31(b)

sord_node_compare(a, b) ==
  IF NodeType(a) # NodeType(b) THEN NodeType(a) - NodeType(b)
  ELSE NodeStr(a) - NodeStr(b)

sord_node_equals(a, b) == sord_node_compare(a, b) = 0

sord_id_compare(a, b) ==
  IF a = b \/ a = Null \/ b = Null THEN PtrDiffInt(a, b)
  ELSE sord_node_compare(a, b)

\* sord_id_compare dereferences a freed node.
IdCompareFreed(a, b) ==
  /\ ~(a = b \/ a = Null \/ b = Null)
  /\ (a \notin live \/ b \notin live)

sord_id_match(a, b) == a = Null \/ b = Null \/ a = b

sord_quad_match_inline(x, y) ==
  /\ sord_id_match(x[1], y[1])
  /\ sord_id_match(x[2], y[2])
  /\ sord_id_match(x[3], y[3])
  /\ sord_id_match(x[4], y[4])

RECURSIVE QuadCompareFrom(_, _, _)
QuadCompareFrom(x, y, i) ==
  IF i > TUP_LEN THEN 0
  ELSE LET cmp == sord_id_compare(x[i], y[i])
       IN IF cmp # 0 THEN cmp ELSE QuadCompareFrom(x, y, i + 1)

sord_quad_compare(x, y) == QuadCompareFrom(x, y, 1)

RECURSIVE QuadCompareFreedFrom(_, _, _)
QuadCompareFreedFrom(x, y, i) ==
  IF i > TUP_LEN THEN FALSE
  ELSE IF IdCompareFreed(x[i], y[i]) THEN TRUE
  ELSE IF sord_id_compare(x[i], y[i]) # 0 THEN FALSE
  ELSE QuadCompareFreedFrom(x, y, i + 1)

\* sord_quad_compare(x, y) reads a freed node.
QuadCompareFreed(x, y) == QuadCompareFreedFrom(x, y, 1)

\* ---------------------------------------------------------------- GSequence
\* g_sequence_search: the tree search ends in a gap whose left neighbour
\* compares <= the key and whose right neighbour compares > it; on a sorted
\* sequence that is the position after the last element <= the key.
g_sequence_search(seq, key) ==
  { p \in 1..(Len(seq) + 1) :
      /\ p = 1 \/ sord_quad_compare(seq[p - 1], key) <= 0
      /\ p = Len(seq) + 1 \/ sord_quad_compare(seq[p], key) > 0 }

\* The search may compare the key with any element: one of them is freed.
SearchFreed(seq, key) ==
  \E i \in 1..Len(seq) : QuadCompareFreed(seq[i], key)

g_sequence_insert_before(seq, p, key) ==
  SubSeq(seq, 1, p - 1) \o <<key>> \o SubSeq(seq, p, Len(seq))

g_sequence_remove(seq, p) ==
  SubSeq(seq, 1, p - 1) \o SubSeq(seq, p + 1, Len(seq))

g_sequence_iter_is_end(seq, p) == p = Len(seq) + 1

g_sequence_iter_prev(p) == IF p = 1 THEN 1 ELSE p - 1

\* The non-null pointers of a quad.
NodesOf(tup) == { tup[j] : j \in 1..TUP_LEN } \ {Null}

\* key[i] = tup[ordering[i]]
KeyOf(tup, order) ==
  LET ordering == orderings[order + 1]
  IN << tup[ordering[1] + 1], tup[ordering[2] + 1],
        tup[ordering[3] + 1], tup[ordering[4] + 1] >>

\* --------------------------------------------------------------- sord_new
\* The orders the bitmask selects, with their graph variants, and no more.
SelectedOrders(mask, graphs) ==
  LET sel == { i \in 0..(NUM_ORDERS \div 2 - 1) : (mask \div (2 ^ i)) % 2 = 1 }
  IN sel \cup (IF graphs THEN { i + NUM_ORDERS \div 2 : i \in sel } ELSE {})

\* The orders whose index sord_new(world, mask, graphs) creates.
sord_new(mask, graphs) ==
  LET sel == { i \in 0..(NUM_ORDERS \div 2 - 1) : (mask \div (2 ^ i)) % 2 = 1 }
      gsel == IF graphs THEN { i + NUM_ORDERS \div 2 : i \in sel } ELSE {}
  IN sel \cup gsel \cup {DEFAULT_ORDER}

\* The (indices, graphs) arguments the models are created with.
Configs ==
  { [mask |-> SORD_SPO, graphs |-> FALSE],
    [mask |-> SORD_SPO + SORD_OPS, graphs |-> FALSE],
    [mask |-> SORD_SPO, graphs |-> TRUE] }

NoIter ==
  [st |-> "none", cur |-> 0, pat |-> <<0,0,0,0>>, order |-> 0, mode |-> "ALL",
   n_prefix |-> 0, end |-> TRUE, skip_graphs |-> FALSE]

\* pat: the pattern searched for; n0: sord_num_quads when the iterator was
\* made; nrem: the sord_remove_iter calls made with it.
NoLoop == [pat |-> <<0,0,0,0>>, n0 |-> 0, nrem |-> 0]

NoCall == [op |-> "init", q |-> <<0,0,0,0>>]

\* key: the constructor inputs the caller watches (named by the node they
\* would allocate, 0: none yet); ret: what the calls with them returned;
\* calls: how many there were (up to MaxCalls).
NoGot == [key |-> 0, ret |-> {}, calls |-> 0]

\* The world has one model only.
NoModel == [indices |-> <<>>, n_quads |-> 0]

\* sord_new creates the default index of every model: ind is that of a
\* model that exists.
IsModel(ind) == DEFAULT_ORDER \in DOMAIN ind

Init ==
  /\ ndebug \in BOOLEAN
  /\ heap_b31 \in {0, 1}
  /\ status = "ok"
  /\ live = {}
  /\ refs = [n \in Node |-> 0]
  /\ n_nodes = 0
  /\ \E c \in Configs :
       indices = [o \in sord_new(c.mask, c.graphs) |-> <<>>]
  /\ n_quads = 0
  /\ iter = NoIter
  /\ seen = <<>>
  /\ loop = NoLoop
  /\ last = NoCall
  /\ got = NoGot
  /\ held = {}
  /\ other = NoModel

\* The first model of the world has the default index only.
InitNodes == Init /\ DOMAIN indices = {DEFAULT_ORDER}

\* ------------------------------------------------------------ world, nodes
\* Every pointer x held in the indices or the iterator becomes y.
RenameIn(ind, x, y) ==
  [o \in DOMAIN ind |->
     [k \in 1..Len(ind[o]) |->
        [j \in 1..TUP_LEN |-> IF ind[o][k][j] = x THEN y ELSE ind[o][k][j]]]]

RenameIter(it, x, y) ==
  [it EXCEPT !.pat = [j \in 1..TUP_LEN |-> IF it.pat[j] = x THEN y ELSE it.pat[j]]]

\* g_hash_table_lookup(world->names, str): URIs and blanks share the table.
sord_lookup_name(str) ==
  IF \E n \in live : NodeType(n) # SORD_LITERAL /\ NodeStr(n) = str
  THEN CHOOSE n \in live : NodeType(n) # SORD_LITERAL /\ NodeStr(n) = str
  ELSE Null

\* sord_literal_hash(n) == sord_literal_hash(m): g_str_hash of the string plus
\* g_str_hash of the language (0 without one); the strings and the tags used
\* here have different hashes.
LiteralHashEqual(n, str, lang) == NodeStr(n) = str /\ NodeLang(n) = lang

\* sord_literal_equal: the strings are equal (FIXME: type, lang).
sord_literal_equal(n, str) == NodeStr(n) = str

\* g_hash_table_lookup(world->literals, node) for a node made of
\* (datatype, str, lang): an entry of the same hash that is "equal".
sord_lookup_literal(datatype, str, lang) ==
  IF \E n \in live : /\ NodeType(n) = SORD_LITERAL
                     /\ LiteralHashEqual(n, str, lang)
                     /\ sord_literal_equal(n, str)
  THEN CHOOSE n \in live : /\ NodeType(n) = SORD_LITERAL
                          /\ LiteralHashEqual(n, str, lang)
                          /\ sord_literal_equal(n, str)
  ELSE Null

\* A constructor called with the inputs that name the node fresh: it returns
\* the node found by the lookup, or allocates fresh, inserts it in the hash
\* table and counts it (sord_add_node).  (A pointer to a freed node of the
\* same inputs stays dangling: reading through it is undefined whatever
\* address malloc hands out.)
NewNode(op, found, fresh) ==
  /\ status = "ok"
  /\ iter.st = "none"
  /\ IF found # Null
     THEN /\ last' = [op |-> op, q |-> <<found, fresh, 0, 0>>]
          /\ UNCHANGED <<live, refs, n_nodes>>
     ELSE /\ n_nodes < MaxCreated
          /\ live' = live \cup {fresh}
          /\ refs' = [refs EXCEPT ![fresh] = 0]
          /\ n_nodes' = n_nodes + 1
          /\ last' = [op |-> op, q |-> <<fresh, fresh, 0, 0>>]
  /\ UNCHANGED <<ndebug, heap_b31, held, other, status, indices, n_quads,
                 iter, seen, loop>>

sord_new_uri(str) == NewNode("new_uri", sord_lookup_name(str), UriNode(str))

sord_new_blank(str) ==
  NewNode("new_blank", sord_lookup_name(str), BlankNode(str))

\* type is a node of the world or null.
sord_new_literal(type, str, lang) ==
  /\ type # Null => type \in live
  /\ NewNode("new_literal", sord_lookup_literal(type, str, lang),
             LiteralNode(type, str, lang))

\* The caller keeps what the constructor returned: it starts to watch the
\* inputs of this call (or not), or has watched them since an earlier call.
Remember ==
  LET key == last'.q[2]
      ret == last'.q[1]
  IN IF got.key = 0
     THEN got' \in {got, [key |-> key, ret |-> {ret}, calls |-> 1]}
     ELSE IF got.key = key
     THEN got' = [got EXCEPT !.ret = @ \cup {ret},
                             !.calls = IF @ < MaxCalls THEN @ + 1 ELSE @]
     ELSE got' = got

\* sord_add_quad_ref for every slot of tup.
RECURSIVE AddQuadRefs(_, _, _)
AddQuadRefs(r, tup, i) ==
  IF i > TUP_LEN THEN r
  ELSE IF tup[i] = Null THEN AddQuadRefs(r, tup, i + 1)
  ELSE AddQuadRefs([r EXCEPT ![tup[i]] = @ + 1], tup, i + 1)

\* sord_drop_quad_ref for every slot of tup, in order: w is
\* [live, refs, ub]; ub is set when --node->refs writes to a freed node.
RECURSIVE DropQuadRefs(_, _, _)
DropQuadRefs(w, tup, i) ==
  IF i > TUP_LEN \/ w.ub THEN w
  ELSE IF tup[i] = Null THEN DropQuadRefs(w, tup, i + 1)
  ELSE IF tup[i] \notin w.live THEN [w EXCEPT !.ub = TRUE]
  ELSE LET n == tup[i]
           r == w.refs[n] - 1
       IN IF r = 0
          THEN \* sord_drop_node
               DropQuadRefs([live |-> w.live \ {n},
                             refs |-> [w.refs EXCEPT ![n] = 0],
                             ub |-> FALSE], tup, i + 1)
          ELSE DropQuadRefs([w EXCEPT !.refs[n] = r], tup, i + 1)

\* The pointers to the nodes in gone are dangling from now on.
RECURSIVE Free(_, _)
Free(ind, gone) ==
  IF gone = {} THEN ind
  ELSE LET n == CHOOSE m \in gone : TRUE
       IN Free(RenameIn(ind, n, 0 - n), gone \ {n})

RECURSIVE FreeIter(_, _)
FreeIter(it, gone) ==
  IF gone = {} THEN it
  ELSE LET n == CHOOSE m \in gone : TRUE
       IN FreeIter(RenameIter(it, n, 0 - n), gone \ {n})

\* A drop after which the caller would still compare with what the
\* constructors returned before it.
DroppedRemembering(gone) ==
  /\ other' = [other EXCEPT !.indices = Free(@, gone)]
  /\ got' = got

\* The nodes in gone were dropped: the other model of the world keeps its
\* pointers to them, and what the constructors returned before is forgotten.
Dropped(gone) ==
  /\ other' = [other EXCEPT !.indices = Free(@, gone)]
  /\ got' = IF gone = {} THEN got ELSE NoGot

\* ---------------------------------------------------------------- sord_add
\* The loop of sord_add over the orders i..NUM_ORDERS-1, each step being
\* sord_add_to_index: the set of [ind, ret] it may end with.
RECURSIVE AddLoop(_, _, _)
AddLoop(ind, tup, i) ==
  IF i = NUM_ORDERS THEN {[ind |-> ind, ret |-> "added"]}
  ELSE IF i \notin DOMAIN ind THEN AddLoop(ind, tup, i + 1)
  ELSE LET key == KeyOf(tup, i)
           seq == ind[i]
       IN IF SearchFreed(seq, key) THEN {[ind |-> ind, ret |-> "ub"]}
          ELSE UNION {
            IF ~g_sequence_iter_is_end(seq, cur)
               /\ sord_quad_compare(seq[cur], key) = 0
            THEN \* Quad already stored in this index
                 {[ind |-> ind,
                   ret |-> IF i = 0 \/ ndebug THEN "stored" ELSE "abort"]}
            ELSE AddLoop([ind EXCEPT ![i] = g_sequence_insert_before(seq, cur, key)],
                         tup, i + 1)
            : cur \in g_sequence_search(seq, key) }

Dead(st, op, q) ==
  /\ status' = st
  /\ last' = [op |-> op, q |-> q]
  /\ UNCHANGED <<ndebug, heap_b31, got, held, other, live, refs, n_nodes, indices, n_quads,
                 iter, seen, loop>>

sord_add(tup) ==
  /\ status = "ok"
  /\ iter.st = "none"
  /\ IsModel(indices)
  /\ NodesOf(tup) \subseteq live
  /\ \A n \in NodesOf(tup) : refs[n] < MaxRefs
  /\ IF ~ndebug /\ ~(tup[1] # Null /\ tup[2] # Null /\ tup[3] # Null)
     THEN Dead("abort", "add", tup)
     ELSE \E res \in AddLoop(indices, tup, 0) :
       IF res.ret \in {"ub", "abort"} THEN Dead(res.ret, "add", tup)
       ELSE IF res.ret = "stored"
       THEN /\ indices' = res.ind
            /\ last' = [op |-> "add", q |-> tup]
            /\ UNCHANGED <<ndebug, heap_b31, got, held, other, status, live, refs, n_nodes,
                           n_quads, iter, seen, loop>>
       ELSE /\ indices' = res.ind
            /\ refs' = AddQuadRefs(refs, tup, 1)
            /\ n_quads' = n_quads + 1
            /\ status' = IF ~ndebug /\ n_quads + 1 # Len(res.ind[SPO])
                         THEN "abort" ELSE "ok"
            /\ last' = [op |-> "add", q |-> tup]
            /\ UNCHANGED <<ndebug, heap_b31, got, held, other, live, n_nodes, iter, seen, loop>>

\* ------------------------------------------------------------- sord_remove
\* The loop of sord_remove over the orders i..NUM_ORDERS-1.
RECURSIVE RemoveLoop(_, _, _)
RemoveLoop(ind, tup, i) ==
  IF i = NUM_ORDERS THEN {[ind |-> ind, ret |-> "removed"]}
  ELSE IF i \notin DOMAIN ind THEN RemoveLoop(ind, tup, i + 1)
  ELSE LET key == KeyOf(tup, i)
           seq == ind[i]
       IN IF SearchFreed(seq, key) THEN {[ind |-> ind, ret |-> "ub"]}
          ELSE UNION {
            IF ~g_sequence_iter_is_end(seq, cur)
            THEN RemoveLoop([ind EXCEPT ![i] = g_sequence_remove(seq, cur)],
                            tup, i + 1)
            ELSE \* Quad not found, do nothing
                 {[ind |-> ind,
                   ret |-> IF i = 0 \/ ndebug THEN "not found" ELSE "abort"]}
            : cur \in g_sequence_search(seq, key) }

sord_remove(tup) ==
  /\ status = "ok"
  /\ iter.st = "none"
  /\ IsModel(indices)
  /\ NodesOf(tup) \subseteq live
  /\ \A n \in NodesOf(tup) : refs[n] > 0 - MaxDebt
  /\ \E res \in RemoveLoop(indices, tup, 0) :
       IF res.ret \in {"ub", "abort"} THEN Dead(res.ret, "remove", tup)
       ELSE IF res.ret = "not found"
       THEN /\ indices' = res.ind
            /\ last' = [op |-> "remove", q |-> tup]
            /\ UNCHANGED <<ndebug, heap_b31, got, held, other, status, live, refs, n_nodes,
                           n_quads, iter, seen, loop>>
       ELSE LET w == DropQuadRefs([live |-> live, refs |-> refs, ub |-> FALSE],
                                  tup, 1)
            IN IF w.ub THEN Dead("ub", "remove", tup)
               ELSE /\ indices' = Free(res.ind, live \ w.live)
                    /\ live' = w.live
                    /\ refs' = w.refs
                    /\ n_quads' = n_quads - 1
                    /\ last' = [op |-> "remove", q |-> tup]
                    /\ Dropped(live \ w.live)
                    /\ UNCHANGED <<ndebug, heap_b31, held, status, n_nodes,
                                   iter, seen, loop>>

\* --------------------------------------------------------------- iterators
\* The key as the index of the ordering order stores it, not permuted back.
StoredKey(key, order) == key

\* id[ordering[i]] = key[i]
QuadOf(key, order) ==
  LET ordering == orderings[order + 1]
  IN [j \in 1..TUP_LEN |-> key[CHOOSE i \in 1..TUP_LEN : ordering[i] = j - 1]]

\* sord_iter_forward on the cursor cur (not the end iterator when skip):
\* [cur, end], end being the value returned.
sord_iter_forward(seq, cur, skip) ==
  IF ~skip
  THEN LET nxt == IF cur > Len(seq) THEN cur ELSE cur + 1
       IN [cur |-> nxt, end |-> g_sequence_iter_is_end(seq, nxt)]
  ELSE LET initial == seq[cur]
           differ == { k \in (cur + 1)..Len(seq) :
                         \E i \in 1..3 : seq[k][i] # initial[i] }
       IN IF differ = {} THEN [cur |-> Len(seq) + 1, end |-> TRUE]
          ELSE [cur |-> CHOOSE k \in differ : \A m \in differ : k <= m,
                end |-> FALSE]

RECURSIVE sord_iter_seek_match(_, _)
sord_iter_seek_match(seq, it) ==
  IF g_sequence_iter_is_end(seq, it.cur) THEN [it EXCEPT !.end = TRUE]
  ELSE IF sord_quad_match_inline(seq[it.cur], it.pat)
  THEN [it EXCEPT !.end = FALSE]
  ELSE sord_iter_seek_match(seq,
         [it EXCEPT !.cur = sord_iter_forward(seq, it.cur, it.skip_graphs).cur])

\* The loop of sord_iter_seek_match_range, iter->end being false.
RECURSIVE SeekMatchRangeLoop(_, _)
SeekMatchRangeLoop(seq, it) ==
  LET key == seq[it.cur]
  IN IF sord_quad_match_inline(key, it.pat) THEN it
     ELSE IF \E i \in 1..it.n_prefix : ~sord_id_match(key[i], it.pat[i])
     THEN [it EXCEPT !.end = TRUE]
     ELSE LET f == sord_iter_forward(seq, it.cur, it.skip_graphs)
          IN IF f.end THEN [it EXCEPT !.cur = f.cur, !.end = TRUE]
             ELSE SeekMatchRangeLoop(seq, [it EXCEPT !.cur = f.cur])

sord_iter_seek_match_range(seq, it) ==
  IF it.end THEN it ELSE SeekMatchRangeLoop(seq, it)

\* sord_iter_new: the iterator, or st = "abort" (the assert fails) or
\* st = "ub" (the data of the end iterator, NULL, is read).
sord_iter_new(ind, cur, pat, order, mode, n_prefix) ==
  LET seq == ind[order]
      it == [st |-> "live", cur |-> cur, pat |-> KeyOf(pat, order),
             order |-> order, mode |-> mode, n_prefix |-> n_prefix,
             end |-> FALSE, skip_graphs |-> order < GSPO]
  IN IF mode \in {"ALL", "SINGLE", "RANGE"}
     THEN IF ndebug THEN it
          ELSE IF g_sequence_iter_is_end(seq, cur) THEN [it EXCEPT !.st = "ub"]
          ELSE IF sord_quad_match_inline(seq[cur], it.pat) THEN it
          ELSE [it EXCEPT !.st = "abort"]
     ELSE IF g_sequence_iter_is_end(seq, cur) THEN [it EXCEPT !.st = "ub"]
     ELSE IF mode = "FILTER_RANGE" THEN sord_iter_seek_match_range(seq, it)
     ELSE sord_iter_seek_match(seq, it)

\* sord_iter_get: the quad under the cursor (not the end iterator).
sord_iter_get(ind, it) == QuadOf(ind[it.order][it.cur], it.order)

\* sord_iter_get or sord_iter_next reads the data of the end iterator.
IterNull(ind, it) == it.cur > Len(ind[it.order])

sord_iter_next(ind, it) ==
  IF it.end THEN it
  ELSE LET seq == ind[it.order]
           f == sord_iter_forward(seq, it.cur, it.skip_graphs)
           it1 == [it EXCEPT !.cur = f.cur, !.end = f.end]
       IN IF f.end THEN it1
          ELSE IF it.mode = "ALL" THEN it1
          ELSE IF it.mode = "SINGLE" THEN [it1 EXCEPT !.end = TRUE]
          ELSE IF it.mode = "RANGE"
          THEN [it1 EXCEPT !.end =
                  \E i \in 1..it.n_prefix :
                     ~sord_id_match(seq[f.cur][i], it.pat[i])]
          ELSE IF it.mode = "FILTER_RANGE"
          THEN sord_iter_seek_match_range(seq, it1)
          ELSE sord_iter_seek_match(seq, it1)

sord_iter_end(it) == it.st = "null" \/ it.end

NullIter == [NoIter EXCEPT !.st = "null"]

\* As sord_has_index, for a model in which every index is materialized.
HasEveryIndex(have, order, n_prefix, graph_search) ==
  LET o == IF graph_search THEN order + GSPO ELSE order
      n == IF graph_search THEN n_prefix + 1 ELSE n_prefix
  IN [order |-> o, n_prefix |-> n, has |-> TRUE]

\* sord_has_index: *order and *n_prefix as it leaves them, and its result.
sord_has_index(have, order, n_prefix, graph_search) ==
  LET o == IF graph_search THEN order + GSPO ELSE order
      n == IF graph_search THEN n_prefix + 1 ELSE n_prefix
  IN [order |-> o, n_prefix |-> n, has |-> o \in have]

\* sord_best_index for a model with the indices have: [order, mode, n_prefix].
sord_best_index(have, pat) ==
  LET graph_search == pat[4] # Null
      sig == (IF pat[1] # Null THEN 256 ELSE 0)
           + (IF pat[2] # Null THEN 16 ELSE 0)
           + (IF pat[3] # Null THEN 1 ELSE 0)
      dflt == IF graph_search THEN DEFAULT_GRAPH_ORDER ELSE DEFAULT_ORDER
      \* Good orderings that don't require filtering
      good == CASE sig = 1   -> [g0 |-> OPS, g1 |-> OSP, n |-> 1]
                [] sig = 16  -> [g0 |-> POS, g1 |-> PSO, n |-> 1]
                [] sig = 17  -> [g0 |-> OPS, g1 |-> POS, n |-> 2]
                [] sig = 256 -> [g0 |-> SPO, g1 |-> SOP, n |-> 1]
                [] sig = 257 -> [g0 |-> SOP, g1 |-> OSP, n |-> 2]
                [] OTHER     -> [g0 |-> SPO, g1 |-> PSO, n |-> 2]
      h0 == sord_has_index(have, good.g0, good.n, graph_search)
      h1 == sord_has_index(have, good.g1, h0.n_prefix, graph_search)
      \* Not so good orderings that require filtering
      fair == CASE sig = 17  -> [g0 |-> OSP, g1 |-> PSO]
                [] sig = 257 -> [g0 |-> SPO, g1 |-> OPS]
                [] OTHER     -> [g0 |-> SOP, g1 |-> POS]
      f0 == sord_has_index(have, fair.g0, 1, graph_search)
      f1 == sord_has_index(have, fair.g1, f0.n_prefix, graph_search)
      filter == sig \in {17, 257, 272}
  IN IF sig = 0 THEN [order |-> dflt, mode |-> "ALL", n_prefix |-> 0]
     ELSE IF sig = 273 THEN [order |-> dflt, mode |-> "SINGLE", n_prefix |-> 0]
     ELSE IF h0.has THEN [order |-> h0.order, mode |-> "RANGE", n_prefix |-> h0.n_prefix]
     ELSE IF h1.has THEN [order |-> h1.order, mode |-> "RANGE", n_prefix |-> h1.n_prefix]
     ELSE IF filter /\ f0.has
     THEN [order |-> f0.order, mode |-> "FILTER_RANGE", n_prefix |-> f0.n_prefix]
     ELSE IF filter /\ f1.has
     THEN [order |-> f1.order, mode |-> "FILTER_RANGE", n_prefix |-> f1.n_prefix]
     ELSE IF graph_search
     THEN [order |-> DEFAULT_GRAPH_ORDER, mode |-> "FILTER_RANGE", n_prefix |-> 1]
     ELSE [order |-> DEFAULT_ORDER, mode |-> "FILTER_ALL",
           n_prefix |-> IF filter THEN f1.n_prefix ELSE h1.n_prefix]

\* The walk to the left at the end of index_lower_bound.
RECURSIVE LowerBoundLeft(_, _, _)
LowerBoundLeft(seq, key, i) ==
  IF i = 1 THEN i
  ELSE IF sord_quad_match_inline(key, seq[i])
          /\ sord_quad_match_inline(key, seq[g_sequence_iter_prev(i)])
  THEN LowerBoundLeft(seq, key, g_sequence_iter_prev(i))
  ELSE i

\* index_lower_bound on a non-empty index: the cursors it may return.
index_lower_bound(seq, key) ==
  { IF i0 = 1 THEN i0
    ELSE LET i == IF g_sequence_iter_is_end(seq, i0)
                  THEN g_sequence_iter_prev(i0) ELSE i0
             prev == g_sequence_iter_prev(i)
         IN IF ~sord_quad_match_inline(key, seq[i])
            THEN IF ~sord_quad_match_inline(key, seq[prev]) THEN i
                 ELSE LowerBoundLeft(seq, key, prev)
            ELSE LowerBoundLeft(seq, key, i)
    : i0 \in g_sequence_search(seq, key) }

sord_begin(ind, n) ==
  IF n = 0 THEN NullIter
  ELSE sord_iter_new(ind, 1, <<0,0,0,0>>, DEFAULT_ORDER, "ALL", 0)

\* sord_find: the iterators it may return (st = "null" for NULL, "ub" and
\* "abort" as in sord_iter_new; "ub" also for a search in a NULL index or
\* through a freed node).
sord_find(ind, n, pat) ==
  IF pat = <<0,0,0,0>> THEN {sord_begin(ind, n)}
  ELSE LET best == sord_best_index(DOMAIN ind, pat)
           search_key == KeyOf(pat, best.order)
           mode == IF \A j \in 1..TUP_LEN : search_key[j] # Null
                   THEN "SINGLE" ELSE best.mode
       IN IF best.order \notin DOMAIN ind THEN {[NoIter EXCEPT !.st = "ub"]}
          ELSE LET db == ind[best.order]
               IN IF SearchFreed(db, search_key) THEN {[NoIter EXCEPT !.st = "ub"]}
                  ELSE IF db = <<>> THEN {NullIter}
                  ELSE { IF mode \in {"RANGE", "SINGLE"}
                            /\ ~sord_quad_match_inline(search_key, db[cur])
                         THEN NullIter
                         ELSE sord_iter_new(ind, cur, pat, best.order, mode,
                                            best.n_prefix)
                         : cur \in index_lower_bound(db, search_key) }

Find(pat) ==
  /\ status = "ok"
  /\ iter.st = "none"
  /\ IsModel(indices)
  /\ NodesOf(pat) \subseteq live
  /\ \E it \in sord_find(indices, n_quads, pat) :
       IF it.st \in {"ub", "abort"} THEN Dead(it.st, "find", pat)
       ELSE /\ iter' = it
            /\ seen' = <<>>
            /\ loop' = [pat |-> pat, n0 |-> n_quads, nrem |-> 0]
            /\ last' = [op |-> "find", q |-> pat]
            /\ UNCHANGED <<ndebug, heap_b31, got, held, other, status, live, refs, n_nodes,
                           indices, n_quads>>

\* One turn of the caller's loop
\*   for (; !sord_iter_end(iter); sord_iter_next(iter)) sord_iter_get(iter, id);
IterNext ==
  /\ status = "ok"
  /\ iter.st = "live"
  /\ ~sord_iter_end(iter)
  /\ IF IterNull(indices, iter) THEN Dead("ub", "next", iter.pat)
     ELSE /\ seen' = Append(seen, sord_iter_get(indices, iter))
          /\ iter' = sord_iter_next(indices, iter)
          /\ last' = [op |-> "next", q |-> sord_iter_get(indices, iter)]
          /\ UNCHANGED <<ndebug, heap_b31, got, held, other, status, live, refs, n_nodes,
                         indices, n_quads, loop>>

\* sord_iter_next(iter) on an iterator for which sord_iter_end(iter) is true:
\* iter->end is read, which for the NULL iterator is a read through NULL.
IterNextAtEnd ==
  /\ status = "ok"
  /\ iter.st \in {"live", "null"}
  /\ sord_iter_end(iter)
  /\ IF iter.st = "null" THEN Dead("ub", "next_end", <<0,0,0,0>>)
     ELSE /\ iter' = sord_iter_next(indices, iter)
          /\ last' = [op |-> "next_end",
                      q |-> <<IF sord_iter_next(indices, iter).end THEN 1 ELSE 0,
                              0, 0, 0>>]
          /\ UNCHANGED <<ndebug, heap_b31, got, held, other, status, live,
                         refs, n_nodes, indices, n_quads, seen, loop>>

\* sord_iter_free
IterFree ==
  /\ status = "ok"
  /\ iter.st # "none"
  /\ iter' = NoIter
  /\ seen' = <<>>
  /\ loop' = NoLoop
  /\ last' = [op |-> "free", q |-> <<0,0,0,0>>]
  /\ UNCHANGED <<ndebug, heap_b31, got, held, other, status, live, refs, n_nodes, indices,
                 n_quads>>

\* -------------------------------------------------------- sord_remove_iter
\* The loop of sord_remove_iter over the orders i..NUM_ORDERS-1; icur is
\* the cursor of the iterator (a GSequenceIter stays on its entry), or 0
\* once its entry has been removed.
RECURSIVE RemoveIterLoop(_, _, _, _, _)
RemoveIterLoop(ind, tup, i, order, icur) ==
  IF i = NUM_ORDERS THEN {[ind |-> ind, icur |-> icur, ret |-> "removed"]}
  ELSE IF i \notin DOMAIN ind THEN RemoveIterLoop(ind, tup, i + 1, order, icur)
  ELSE LET key == KeyOf(tup, i)
           seq == ind[i]
       IN IF SearchFreed(seq, key)
          THEN {[ind |-> ind, icur |-> icur, ret |-> "ub"]}
          ELSE UNION {
            IF ~g_sequence_iter_is_end(seq, cur)
            THEN RemoveIterLoop(
                   [ind EXCEPT ![i] = g_sequence_remove(seq, cur)], tup, i + 1,
                   order,
                   IF i # order THEN icur
                   ELSE IF cur = icur THEN 0
                   ELSE IF cur < icur THEN icur - 1 ELSE icur)
            ELSE IF i = 0 \/ ndebug
            THEN RemoveIterLoop(ind, tup, i + 1, order, icur)
            ELSE {[ind |-> ind, icur |-> icur, ret |-> "abort"]}
            : cur \in g_sequence_search(seq, key) }

sord_remove_iter ==
  /\ status = "ok"
  /\ iter.st = "live"
  /\ ~sord_iter_end(iter)
  /\ n_quads > 0 - MaxDebt
  /\ ~IterNull(indices, iter) =>
       \A n \in NodesOf(sord_iter_get(indices, iter)) \cap live :
          refs[n] > 0 - MaxDebt
  /\ IF IterNull(indices, iter) THEN Dead("ub", "remove_iter", iter.pat)
     ELSE LET tup == sord_iter_get(indices, iter)
          IN \E res \in RemoveIterLoop(indices, tup, 0, iter.order, iter.cur) :
               LET w == DropQuadRefs([live |-> live, refs |-> refs, ub |-> FALSE],
                                     tup, 1)
               IN IF res.ret \in {"ub", "abort"}
                  THEN Dead(res.ret, "remove_iter", tup)
                  ELSE IF w.ub \/ res.icur = 0
                  THEN Dead("ub", "remove_iter", tup)
                  ELSE /\ indices' = Free(res.ind, live \ w.live)
                       /\ live' = w.live
                       /\ refs' = w.refs
                       /\ n_quads' = n_quads - 1
                       /\ iter' = FreeIter(
                            [iter EXCEPT
                               !.cur = res.icur,
                               !.end = g_sequence_iter_is_end(res.ind[iter.order],
                                                              res.icur)],
                            live \ w.live)
                       /\ seen' = Append(seen, tup)
                       /\ loop' = [loop EXCEPT !.nrem = @ + 1]
                       /\ last' = [op |-> "remove_iter", q |-> tup]
                       /\ Dropped(live \ w.live)
                       /\ UNCHANGED <<ndebug, heap_b31, held, status, n_nodes>>

\* ---------------------------------------------------------------- sord_free
\* The loop of sord_free from the iterator it: every quad it reads gives up
\* its references; w is [live, refs, ub] as in DropQuadRefs, ub also when
\* sord_iter_get reads the data of the end iterator.
RECURSIVE FreeLoop(_, _, _)
FreeLoop(ind, it, w) ==
  IF w.ub \/ sord_iter_end(it) THEN w
  ELSE IF IterNull(ind, it) THEN [w EXCEPT !.ub = TRUE]
  ELSE FreeLoop(ind, sord_iter_next(ind, it),
                DropQuadRefs(w, sord_iter_get(ind, it), 1))

\* sord_free(sord): the indices and the model are released, whatever the
\* loop has dropped.
sord_free ==
  /\ status = "ok"
  /\ iter.st = "none"
  /\ IsModel(indices)
  /\ LET it == sord_begin(indices, n_quads)
         w == FreeLoop(indices, it, [live |-> live, refs |-> refs, ub |-> FALSE])
     IN IF it.st \in {"ub", "abort"} THEN Dead(it.st, "sord_free", <<0,0,0,0>>)
        ELSE IF w.ub THEN Dead("ub", "sord_free", <<0,0,0,0>>)
        ELSE /\ indices' = NoModel.indices
             /\ n_quads' = NoModel.n_quads
             /\ live' = w.live
             /\ refs' = w.refs
             /\ last' = [op |-> "sord_free", q |-> <<0,0,0,0>>]
             /\ Dropped(live \ w.live)
             /\ UNCHANGED <<ndebug, heap_b31, held, status, n_nodes, iter,
                            seen, loop>>

\* iter = sord_begin(sord)
Begin == Find(<<0,0,0,0>>)

\* No index holds k entries yet.
Room(k) == \A o \in DOMAIN indices : Len(indices[o]) < k

\* A caller that adds and removes quads, and walks the model from sord_begin.
Next ==
  \/ \E str \in Str : sord_new_uri(str) /\ UNCHANGED got
  \/ \E tup \in QuadPool : Room(MaxQuads) /\ sord_add(tup)
  \/ \E tup \in QuadPool : sord_remove(tup)
  \/ Begin
  \/ IterNext
  \/ IterNextAtEnd
  \/ sord_remove_iter
  \/ IterFree
  \/ sord_free

Spec == Init /\ [][Next]_vars

\* A caller that adds quads and searches the model for patterns.
NextFind ==
  \/ \E str \in Str : sord_new_uri(str) /\ UNCHANGED got
  \/ \E tup \in FindPool : Room(MaxFindQuads) /\ sord_add(tup)
  \/ \E pat \in PatPool : Find(pat)
  \/ IterNext
  \/ IterFree

SpecFind == Init /\ [][NextFind]_vars

\* A caller that adds and removes quads, and searches the model for patterns
\* in between.
NextEdit ==
  \/ \E str \in Str : sord_new_uri(str) /\ UNCHANGED got
  \/ \E tup \in FindPool : Room(MaxFindQuads) /\ sord_add(tup)
  \/ \E tup \in QuadPool : sord_remove(tup)
  \/ \E pat \in PatPool : Find(pat)
  \/ IterNext
  \/ IterFree

SpecEdit == Init /\ [][NextEdit]_vars

\* sord_node_copy(node) returns node: the caller holds one more copy of it.
sord_node_copy(n) ==
  /\ status = "ok"
  /\ n \in live
  /\ n \notin held
  /\ held' = held \cup {n}
  /\ last' = [op |-> "node_copy", q |-> <<n, 0, 0, 0>>]
  /\ UNCHANGED <<ndebug, heap_b31, got, other, status, live, refs, n_nodes,
                 indices, n_quads, iter, seen, loop>>

\* sord_node_free(node) does nothing: the caller gives its copy up.
sord_node_free(n) ==
  /\ status = "ok"
  /\ n \in held
  /\ held' = held \ {n}
  /\ last' = [op |-> "node_free", q |-> <<n, 0, 0, 0>>]
  /\ UNCHANGED <<ndebug, heap_b31, got, other, status, live, refs, n_nodes,
                 indices, n_quads, iter, seen, loop>>

\* A second sord_new(world, mask, graphs) on the world.
NewModel(mask, graphs) ==
  /\ status = "ok"
  /\ other = NoModel
  /\ other' = [indices |-> [o \in sord_new(mask, graphs) |-> <<>>],
               n_quads |-> 0]
  /\ last' = [op |-> "new", q |-> <<mask, IF graphs THEN 1 ELSE 0, 0, 0>>]
  /\ UNCHANGED <<ndebug, heap_b31, got, held, status, live, refs, n_nodes,
                 indices, n_quads, iter, seen, loop>>

\* The caller turns to the other model of the world: indices and n_quads
\* are those of the model its calls are made on.
SwitchModel ==
  /\ status = "ok"
  /\ iter.st = "none"
  /\ IsModel(other.indices)
  /\ indices' = other.indices
  /\ n_quads' = other.n_quads
  /\ other' = [indices |-> indices, n_quads |-> n_quads]
  /\ last' = [op |-> "switch", q |-> <<0,0,0,0>>]
  /\ UNCHANGED <<ndebug, heap_b31, got, held, status, live, refs, n_nodes,
                 iter, seen, loop>>

\* Two models on one world, and a caller that copies nodes: quads are added
\* to either model, removed through an iterator, and the models freed.
NextWorld ==
  \/ \E str \in Str : sord_new_uri(str) /\ UNCHANGED got
  \/ \E n \in Node : sord_node_copy(n)
  \/ \E n \in Node : sord_node_free(n)
  \/ NewModel(SORD_SPO, FALSE)
  \/ SwitchModel
  \/ \E tup \in WorldQuadPool : Room(1) /\ sord_add(tup)
  \/ \E pat \in WorldPatPool : Find(pat)
  \/ sord_remove_iter
  \/ IterFree
  \/ sord_free

SpecWorld == InitNodes /\ [][NextWorld]_vars

\* Models of every index configuration: sord_new with each bitmask, with and
\* without graphs; a quad is added to the model and it is searched with
\* every pattern.
NextIndex ==
  \/ \E str \in Str : sord_new_uri(str) /\ UNCHANGED got
  \/ \E mask \in 0..(2 ^ (NUM_ORDERS \div 2) - 1), graphs \in BOOLEAN :
       NewModel(mask, graphs)
  \/ SwitchModel
  \/ \E tup \in IndexQuadPool : Room(1) /\ sord_add(tup)
  \/ \E pat \in PatPool : Find(pat)
  \/ IterNext
  \/ IterFree

SpecIndex == InitNodes /\ [][NextIndex]_vars

\* A caller that stores a typed literal: the URIs "a" and "b", the literal "a"
\* with datatype "b", quads of them, and removal through an iterator.
NextTyped ==
  \/ \E str \in NameStr : sord_new_uri(str) /\ UNCHANGED got
  \/ sord_new_literal(UriNode(2), 1, 0) /\ UNCHANGED got
  \/ \E tup \in TypedQuadPool : Room(MaxQuads) /\ sord_add(tup)
  \/ Begin
  \/ IterNext
  \/ sord_remove_iter
  \/ IterFree

SpecTyped == InitNodes /\ [][NextTyped]_vars

\* The caller compares two nodes it holds with sord_node_equals.
NodeEquals(a, b) ==
  /\ status = "ok"
  /\ iter.st = "none"
  /\ a \in live
  /\ b \in live
  /\ last' = [op |-> "node_equals",
              q |-> <<a, b, IF sord_node_equals(a, b) THEN 1 ELSE 0, 0>>]
  /\ UNCHANGED <<ndebug, heap_b31, got, held, other, status, live, refs,
                 n_nodes, indices, n_quads, iter, seen, loop>>

\* The nodes of a world: every constructor, with strings "a" and "b", the
\* datatypes null and "b", the languages null, "en" and "fr"; a quad is
\* added and the model freed, so that nodes are dropped.
NextNodes ==
  \/ \E str \in NameStr : sord_new_uri(str) /\ Remember
  \/ \E str \in BlankStr : sord_new_blank(str) /\ Remember
  \/ \E type \in {Null, 2}, lang \in {0} \cup Lang :
       sord_new_literal(type, 1, lang) /\ Remember
  \/ \E a \in live, b \in live : NodeEquals(a, b)
  \/ \E tup \in NodeQuadPool : Room(1) /\ sord_add(tup)
  \/ sord_free

SpecNodes == InitNodes /\ [][NextNodes]_vars

\* ------------------------------------------------------------ observations
\* Number of entries of seq equal to key.
Count(seq, key) == Cardinality({ k \in 1..Len(seq) : seq[k] = key })

\* The quads (S, P, O, G) the index of order o holds.
Quads(o) == { QuadOf(indices[o][k], o) : k \in 1..Len(indices[o]) }

\* The entries of the default index that match pat.
Matching(pat) ==
  { k \in 1..Len(indices[DEFAULT_ORDER]) :
      sord_quad_match_inline(indices[DEFAULT_ORDER][k], pat) }

\* The caller's loop over a sord_find or sord_begin iterator has run to its end.
Done == status = "ok" /\ iter.st \in {"live", "null"} /\ sord_iter_end(iter)

\* The caller's loop of test_read over the iterator it, run to its end
\*   for (; !sord_iter_end(iter); sord_iter_next(iter)) sord_iter_get(iter, id);
\* st is "ok" when the loop ends, else how it dies; seen is what it read.
RECURSIVE Walk(_, _, _)
Walk(ind, it, acc) ==
  IF it.st \in {"ub", "abort"} THEN [st |-> it.st, seen |-> acc]
  ELSE IF sord_iter_end(it) THEN [st |-> "ok", seen |-> acc]
  ELSE IF IterNull(ind, it) THEN [st |-> "ub", seen |-> acc]
  ELSE Walk(ind, sord_iter_next(ind, it), Append(acc, sord_iter_get(ind, it)))

\* What sord_find(M, pat) may return to a caller that iterates to the end, M
\* having the indices ind: the set of quads read, their number, and whether
\* the loop ended.
Results(ind, pat) ==
  { LET w == Walk(ind, it, <<>>)
    IN [st |-> w.st, quads |-> { w.seen[k] : k \in 1..Len(w.seen) },
        n |-> Len(w.seen)]
    : it \in sord_find(ind, n_quads, pat) }

\* The model sord_new(world, SORD_SPO, false) is after the adds that made ind.
OnlySPO(ind) == [o \in {SPO} |-> ind[SPO]]

\* A nested query that runs the caller's own iterator to its end instead of
\* an iterator of its own.
NestedFindOnSameIter ==
  /\ status = "ok"
  /\ iter.st = "live"
  /\ ~sord_iter_end(iter)
  /\ ~IterNull(indices, iter)
  /\ iter' = [iter EXCEPT !.cur = Len(indices[iter.order]) + 1, !.end = TRUE]
  /\ last' = [op |-> "nested",
              q |-> <<sord_iter_get(indices, iter)[1], 0, 0, 0>>]
  /\ UNCHANGED <<ndebug, heap_b31, got, held, other, status, live, refs,
                 n_nodes, indices, n_quads, seen, loop>>

\* The nested query of test_read, made inside the loop over iter: for the
\* quad id the outer iterator is on, subiter = sord_find(sord, (id[0] 0 0 0))
\* is iterated to its end and freed.
NestedFind ==
  /\ status = "ok"
  /\ iter.st = "live"
  /\ ~sord_iter_end(iter)
  /\ ~IterNull(indices, iter)
  /\ LET subpat == <<sord_iter_get(indices, iter)[1], 0, 0, 0>>
     IN \E res \in Results(indices, subpat) :
          IF res.st # "ok" THEN Dead(res.st, "nested", subpat)
          ELSE /\ last' = [op |-> "nested", q |-> subpat]
               /\ UNCHANGED <<ndebug, heap_b31, got, held, other, status, live,
                              refs, n_nodes, indices, n_quads, iter, seen, loop>>

\* A caller that only reads: it searches the model, iterates, and makes
\* nested queries inside the iteration.
NextRead ==
  \/ \E str \in Str : sord_new_uri(str) /\ UNCHANGED got
  \/ \E tup \in FindPool : Room(MaxQuads) /\ sord_add(tup)
  \/ \E pat \in PatPool : Find(pat)
  \/ IterNext
  \/ NestedFind
  \/ IterFree

SpecRead == Init /\ [][NextRead]_vars

\* ------------------------------------------------------------------ claims
\* C1: sord_add of a quad that is already stored is a no-op: n_quads, every
\* index and every node's refs are as before the call.
C1_AddOfStoredQuadIsNoOp ==
  [][\A q \in QuadPool :
       ( /\ status = "ok"
         /\ \A o \in DOMAIN indices : Count(indices[o], KeyOf(q, o)) >= 1
         /\ last' = [op |-> "add", q |-> q] )
       => /\ n_quads' = n_quads
          /\ indices' = indices
          /\ refs' = refs]_vars

\* C2: once sord_add, sord_remove or sord_remove_iter has returned, n_quads
\* is the number of entries of every materialized index.
C2_NumQuadsIsIndexSize ==
  status = "ok" => \A o \in DOMAIN indices : n_quads = Len(indices[o])

\* C3: once a call has returned, all materialized indices hold the same set
\* of quads.
C3_IndicesHoldSameQuads ==
  status = "ok" => \A o1, o2 \in DOMAIN indices : Quads(o1) = Quads(o2)

\* C4: iterating sord_find(M, P) to its end, P having one to three of S, P, O
\* set, visits every stored quad that matches P exactly once, and nothing
\* else (here: on a model of distinct quads in the default graph).
C4_FindVisitsEachMatchOnce ==
  ( /\ Done
    /\ loop.pat[4] = Null
    /\ \E j \in 1..3 : loop.pat[j] # Null
    /\ \A k \in 1..Len(indices[DEFAULT_ORDER]) :
         /\ indices[DEFAULT_ORDER][k][4] = Null
         /\ Count(indices[DEFAULT_ORDER], indices[DEFAULT_ORDER][k]) = 1 )
  => /\ \A k \in Matching(loop.pat) : Count(seen, indices[DEFAULT_ORDER][k]) = 1
     /\ Len(seen) = Cardinality(Matching(loop.pat))

\* C5: every quad read from the iterator of sord_find(M, pat) matches pat,
\* graph slot included.
C5_FindYieldsOnlyMatches ==
  status = "ok" =>
    \A k \in 1..Len(seen) : sord_quad_match_inline(seen[k], loop.pat)

\* C6: iterating sord_begin(M) to its end visits every stored quad exactly
\* once, so the number of quads visited is n_quads.
C6_BeginVisitsEveryQuadOnce ==
  (Done /\ loop.pat = <<0,0,0,0>>)
  => /\ Len(seen) = n_quads
     /\ \A q \in Quads(DEFAULT_ORDER) : Count(seen, q) = 1

\* C7: sord_remove_iter removes the quad the iterator is on from every index,
\* and no other quad, and leaves the iterator on the entry that followed it
\* (at end if there is none).
C7_RemoveIterRemovesCurrent ==
  [][( /\ status = "ok"
       /\ status' = "ok"
       /\ last'.op = "remove_iter" )
     => /\ \A o \in DOMAIN indices :
             \E k \in 1..Len(indices[o]) :
               /\ indices[o][k] = KeyOf(last'.q, o)
               /\ indices'[o] = g_sequence_remove(indices[o], k)
        /\ indices'[iter.order] = g_sequence_remove(indices[iter.order], iter.cur)
        /\ iter'.cur = iter.cur
        /\ iter'.end = g_sequence_iter_is_end(indices'[iter.order], iter'.cur)]_vars

\* C8: the loop for (iter = sord_begin(M); !sord_iter_end(iter);)
\* sord_remove_iter(M, iter); on a model of N >= 1 quads ends after exactly N
\* removals, with n_quads = 0 and sord_begin at end.
C8_DrainLoopEndsAfterNRemovals ==
  ( /\ status = "ok"
    /\ iter.st = "live"
    /\ loop.pat = <<0,0,0,0>>
    /\ loop.n0 >= 1
    /\ Len(seen) = loop.nrem )
  => /\ loop.nrem <= loop.n0
     /\ sord_iter_end(iter) <=> loop.nrem = loop.n0
     /\ sord_iter_end(iter) =>
          /\ n_quads = 0
          /\ sord_iter_end(sord_begin(indices, n_quads))

\* C9: sord_remove(M, Q) right after the sord_add(M, Q) that stored Q restores
\* the model: Q is in no index, n_quads is back to its value, and every other
\* entry is still in its index.
C9_AddThenRemoveRestores ==
  [][\A q \in QuadPool :
       ( /\ status = "ok"
         /\ last = [op |-> "add", q |-> q]
         /\ \A o \in DOMAIN indices :
              Count(indices[o], KeyOf(q, o)) = 1 /\ n_quads = Len(indices[o])
         /\ last' = [op |-> "remove", q |-> q] )
       => /\ status' = "ok"
          /\ n_quads' = n_quads - 1
          /\ \A o \in DOMAIN indices :
               \E k \in 1..Len(indices[o]) :
                 /\ indices[o][k] = KeyOf(q, o)
                 /\ indices'[o] = g_sequence_remove(indices[o], k)]_vars

\* C10: sord_remove of a quad that is not stored changes nothing: no index
\* entry is removed, n_quads and every node's refs are as before.
C10_RemoveOfAbsentQuadIsNoOp ==
  [][\A q \in QuadPool :
       ( /\ status = "ok"
         /\ \A o \in DOMAIN indices : Count(indices[o], KeyOf(q, o)) = 0
         /\ last' = [op |-> "remove", q |-> q] )
       => /\ indices' = indices
          /\ n_quads' = n_quads
          /\ refs' = refs
          /\ live' = live]_vars

C12_LiteralKeyIsBytesDatatypeLang ==
  last.op = "new_literal" =>
    /\ NodeDatatype(last.q[1]) = NodeDatatype(last.q[2])
    /\ NodeLang(last.q[1]) = NodeLang(last.q[2])

\* C13: the node a constructor returns has the kind the constructor was
\* asked for, so that sord_new_uri and sord_new_blank of the same bytes
\* return different nodes.
C13_ConstructorReturnsItsKind ==
  last.op \in {"new_uri", "new_blank", "new_literal"} =>
    NodeType(last.q[1]) = NodeType(last.q[2])

\* C14: sord_node_equals(a, b) is true iff a and b are the same reference,
\* for the nodes a, b of one world.
C14_NodeEqualsIsIdentity ==
  last.op = "node_equals" => (last.q[3] = 1 <=> last.q[1] = last.q[2])

\* The (stored quad, slot) occurrences of node n in the model of indices ind.
Occurrences(ind, n) ==
  IF IsModel(ind)
  THEN Cardinality({ <<k, j>> \in (1..Len(ind[DEFAULT_ORDER])) \X (1..TUP_LEN) :
                       ind[DEFAULT_ORDER][k][j] = n })
  ELSE 0

\* C15: after any sequence of add / remove / remove_iter, the reference
\* count of each live node is the number of (stored quad, slot) occurrences
\* of the node over the models of the world, and is never negative.
C15_RefsCountOccurrences ==
  (status = "ok" /\ IsModel(indices)) =>
    \A n \in live :
      /\ refs[n] = Occurrences(indices, n) + Occurrences(other.indices, n)
      /\ refs[n] >= 0

\* C16: sord_num_nodes(world) is the number of nodes that are part of at
\* least one stored quad: nodes created but never added are not counted.
C16_NumNodesCountsNodesInQuads ==
  (status = "ok" /\ IsModel(indices)) =>
    n_nodes = Cardinality({ n \in live : Occurrences(indices, n)
                                          + Occurrences(other.indices, n) > 0 })

\* C17: a node of which the caller holds a copy made with sord_node_copy,
\* not yet released with sord_node_free, is not dropped.
C17_CopiedNodeIsNotDropped == status = "ok" => held \subseteq live

\* The quads of the model of indices ind point to a freed node.
Dangling(ind) ==
  \E o \in DOMAIN ind : \E k \in 1..Len(ind[o]) : \E j \in 1..TUP_LEN :
    ind[o][k][j] < 0

\* C19: with two models on one world, removing quads from one of them does
\* not drop a node that a quad of the other one uses: the quads of the other
\* model still point to live nodes.
C19_RemovalKeepsNodesOfOtherModel ==
  [][(/\ last'.op \in {"remove", "remove_iter"}
      /\ status' = "ok"
      /\ IsModel(other.indices)
      /\ ~Dangling(other.indices))
     => ~Dangling(other'.indices)]_vars

\* The only model of the world stores distinct quads of live nodes, and the
\* reference counts are the numbers of occurrences in them.
OnlyModelCounted ==
  /\ IsModel(indices)
  /\ other = NoModel
  /\ ~Dangling(indices)
  /\ \A k1, k2 \in 1..Len(indices[DEFAULT_ORDER]) :
       k1 # k2 => indices[DEFAULT_ORDER][k1] # indices[DEFAULT_ORDER][k2]
  /\ \A n \in live : refs[n] = Occurrences(indices, n)

\* C18: sord_free(M) gives up one reference per (stored quad, slot)
\* occurrence in M, with and without graph tracking: after freeing the only
\* model of the world, every node that occurred in its quads is dropped.
C18_FreeDropsEveryQuad ==
  [][(last'.op = "sord_free" /\ status' = "ok" /\ OnlyModelCounted)
     => \A n \in live : Occurrences(indices, n) > 0 => n \notin live']_vars

\* C20: once sord_iter_end(iter) is true, a further sord_iter_next(iter)
\* returns true and leaves the iterator at end.
C20_EndIsAbsorbing ==
  [][(/\ status = "ok"
      /\ iter.st \in {"live", "null"}
      /\ sord_iter_end(iter)
      /\ last'.op = "next_end")
     => (status' = "ok" /\ last'.q[1] = 1 /\ sord_iter_end(iter'))]_vars

\* C21: sord_find(M, pat) on a model in which no stored quad matches pat
\* returns an iterator for which sord_iter_end is true at once (NULL or at
\* end), in every search mode and index configuration.
C21_FindWithoutMatchIsAtEnd ==
  [][( /\ status = "ok"
       /\ last'.op = "find"
       /\ \A q \in Quads(DEFAULT_ORDER) : ~sord_quad_match_inline(q, last'.q) )
     => (status' = "ok" /\ sord_iter_end(iter'))]_vars

\* C22: sord_find returns NULL iff no stored quad matches the pattern: a
\* result that is not NULL is an iterator that stands on a match, so that
\* the caller may read the current quad without asking sord_iter_end.
C22_FindIsNullIffNoMatch ==
  (status = "ok" /\ last.op = "find") =>
    /\ iter.st = "null" <=> Matching(KeyOf(last.q, DEFAULT_ORDER)) = {}
    /\ iter.st = "live" =>
         /\ ~iter.end
         /\ ~IterNull(indices, iter)
         /\ sord_quad_match_inline(sord_iter_get(indices, iter), last.q)

\* C23: sord_add of a quad whose subject, predicate or object is null is
\* ignored: the call returns, and every index, n_quads and every reference
\* count are as before.
C23_AddWithNullSlotIsIgnored ==
  [][( /\ status = "ok"
       /\ last'.op = "add"
       /\ \E j \in 1..3 : last'.q[j] = Null )
     => /\ status' = "ok"
        /\ indices' = indices
        /\ n_quads' = n_quads
        /\ refs' = refs]_vars

\* C24: every literal node has at most one of datatype and language:
\* sord_new_literal called with both yields a literal with the language and
\* a null datatype.
C24_LiteralHasDatatypeXorLanguage ==
  \A n \in live :
    NodeType(n) = SORD_LITERAL => (NodeDatatype(n) = Null \/ NodeLang(n) = 0)

\* C25: every model sord_new returns has the SPO index, whatever the bitmask
\* is (0 and the masks without SORD_SPO included).
C25_NewModelHasSPO ==
  /\ SPO \in DOMAIN indices
  /\ last.op = "new" => SPO \in DOMAIN other.indices

\* sord_new was called with a bitmask that does not select SPO.
C25_NewWithoutSPOInMask ==
  /\ last.op = "new"
  /\ last.q[1] % (2 * SORD_SPO) = 0
  /\ SPO \in DOMAIN other.indices

\* C26: every model sord_new creates with graphs enabled has the GSPO
\* index, whatever orderings the bitmask selects.
C26_GraphModelHasGSPO ==
  (last.op = "new" /\ last.q[1] # 0 /\ last.q[2] = 1)
    => GSPO \in DOMAIN other.indices

\* C27: after the same adds, sord_find(M, pat) returns the same set of quads,
\* and as many, whichever single ordering the model was created with (graphs
\* off): the model with the orders {SPO, o} answers as the model with SPO
\* alone (here: on a model of distinct quads).
C27_ResultsSameForEveryIndex ==
  ( /\ status = "ok"
    /\ \E o \in SPO..POS : DOMAIN indices = {SPO, o}
    /\ \A k \in 1..Len(indices[SPO]) : Count(indices[SPO], indices[SPO][k]) = 1 )
  => \A pat \in PatPool :
       NodesOf(pat) \subseteq live
         => Results(indices, pat) = Results(OnlySPO(indices), pat)

\* C28: the key sord_add stores (key[i] = quad[ordering[i]]) and the quad
\* sord_iter_get reads back (quad[ordering[i]] = key[i]) are inverse for each
\* of the twelve orderings: every quad read from an index, whichever ordering
\* the iterator walks, is the quad that was added.
C28_ReadBackIsQuadAdded ==
  /\ \A o \in 0..(NUM_ORDERS - 1), q \in FindPool : QuadOf(KeyOf(q, o), o) = q
  /\ status = "ok" =>
       /\ \A o \in DOMAIN indices : Quads(o) \subseteq IndexQuadPool
       /\ (iter.st = "live" /\ ~iter.end /\ ~IterNull(indices, iter))
            => sord_iter_get(indices, iter) \in IndexQuadPool
       /\ last.op = "next" => last.q \in IndexQuadPool

\* sord_iter_get has read the quad added from an iterator that walks GOSP,
\* an ordering that is not its own inverse.
C28_ReadFromGOSP ==
  /\ status = "ok"
  /\ last.op = "next"
  /\ iter.st = "live"
  /\ iter.order = OSP + GSPO
  /\ last.q \in IndexQuadPool

\* C29: for a pattern with a null graph slot sord_best_index follows the
\* selection table: no slot -> SPO, full scan; O -> OPS else OSP, prefix 1;
\* P -> POS else PSO, prefix 1; P,O -> OPS else POS, prefix 2; S -> SPO else
\* SOP, prefix 1; S,O -> SOP else OSP, prefix 2; S,P -> SPO else PSO, prefix 2;
\* S,P,O -> SPO, single point; with neither preferred ordering materialized,
\* a materialized ordering that starts with one of the set slots, mode
\* filter-range, prefix 1; otherwise SPO with mode filter-all.
C29_BestIndexFollowsTable ==
  IsModel(indices) =>
    \A pat \in PatPool :
      pat[4] = Null =>
        LET have == DOMAIN indices
            best == sord_best_index(have, pat)
            set == { j \in 1..3 : pat[j] # Null }
            pref == CASE set = {3}    -> <<OPS, OSP, 1>>
                      [] set = {2}    -> <<POS, PSO, 1>>
                      [] set = {2, 3} -> <<OPS, POS, 2>>
                      [] set = {1}    -> <<SPO, SOP, 1>>
                      [] set = {1, 3} -> <<SOP, OSP, 2>>
                      [] OTHER        -> <<SPO, PSO, 2>>
            StartsWithSetSlot(o) == orderings[o + 1][1] + 1 \in set
        IN IF set = {} THEN best.order = SPO /\ best.mode = "ALL"
           ELSE IF set = {1, 2, 3} THEN best.order = SPO /\ best.mode = "SINGLE"
           ELSE IF pref[1] \in have
           THEN best = [order |-> pref[1], mode |-> "RANGE", n_prefix |-> pref[3]]
           ELSE IF pref[2] \in have
           THEN best = [order |-> pref[2], mode |-> "RANGE", n_prefix |-> pref[3]]
           ELSE IF \E o \in have : StartsWithSetSlot(o)
           THEN /\ best.order \in have
                /\ StartsWithSetSlot(best.order)
                /\ best.mode = "FILTER_RANGE"
                /\ best.n_prefix = 1
           ELSE best.order = SPO /\ best.mode = "FILTER_ALL"

\* sord_find has searched for a pattern with P and O set in a model that has
\* neither OPS nor POS, and iterates the fallback ordering OSP.
C29_FoundThroughFallback ==
  /\ status = "ok"
  /\ last = [op |-> "find", q |-> <<0, 2, 3, 0>>]
  /\ OPS \notin DOMAIN indices
  /\ POS \notin DOMAIN indices
  /\ iter.st = "live"
  /\ iter.order = OSP
  /\ iter.mode = "FILTER_RANGE"
  /\ iter.n_prefix = 1

\* C30: in a model that tracks graphs (each materialized ordering has its
\* graph variant), for a pattern with the graph and one or two of S, P, O set,
\* sord_best_index returns the graph variant of the ordering it chooses for
\* the same pattern without the graph, in the same mode, with a prefix one
\* longer, also when that ordering is the second preferred or a fallback one;
\* when no candidate ordering is materialized it returns GSPO, filter-range,
\* prefix 1.
C30_GraphVariantHasPrefixPlusOne ==
  ( /\ IsModel(indices)
    /\ \A o \in SPO..POS : o \in DOMAIN indices => o + GSPO \in DOMAIN indices )
  => \A pat \in PatPool :
       ( /\ pat[4] # Null
         /\ \E j \in 1..3 : pat[j] # Null
         /\ \E j \in 1..3 : pat[j] = Null )
       => LET have == DOMAIN indices
              plain == sord_best_index(have, [pat EXCEPT ![4] = Null])
              best == sord_best_index(have, pat)
          IN IF plain.mode \in {"RANGE", "FILTER_RANGE"}
             THEN best = [order |-> plain.order + GSPO, mode |-> plain.mode,
                          n_prefix |-> plain.n_prefix + 1]
             ELSE best = [order |-> GSPO, mode |-> "FILTER_RANGE", n_prefix |-> 1]

\* The entries of seq whose S, P and O are those of the quad q.
SameTriple(seq, q) ==
  { k \in 1..Len(seq) : \A j \in 1..3 : seq[k][j] = q[j] }

\* C31: in a model that tracks graphs, iterating sord_find(M, pat), the graph
\* slot of pat being null, to its end yields each stored statement (S, P, O)
\* that matches pat exactly once, in however many graphs it is stored (here:
\* on a model of distinct quads).
C31_EachStatementOnce ==
  ( /\ Done
    /\ GSPO \in DOMAIN indices
    /\ loop.pat[4] = Null
    /\ \A k \in 1..Len(indices[SPO]) : Count(indices[SPO], indices[SPO][k]) = 1 )
  => \A k \in Matching(loop.pat) :
       Cardinality(SameTriple(seen, indices[DEFAULT_ORDER][k])) = 1

\* C32: sord_quad_compare returns 0 for two quads iff they hold the same node
\* in every slot, for nodes of every kind: no two different quads of interned
\* nodes compare equal.
C32_CompareZeroIffSameQuad ==
  status = "ok" =>
    \A a \in live, b \in live :
      LET x == <<1, 2, a, 0>>
          y == <<1, 2, b, 0>>
      IN (sord_quad_compare(x, y) = 0) <=> (x = y)

\* C33: null sorts strictly below every node and equal to itself:
\* sord_id_compare(null, n) is negative and sord_id_compare(n, null) positive
\* for every node n, and sord_id_compare(null, null) is 0.
C33_NullIsTheMinimum ==
  /\ sord_id_compare(Null, Null) = 0
  /\ \A n \in live : /\ sord_id_compare(Null, n) < 0
                      /\ sord_id_compare(n, Null) > 0

\* Each entry of seq compares <= the entry after it (and the comparison reads
\* no freed node, so that it has a result).
Sorted(seq) ==
  \A k \in 1..(Len(seq) - 1) :
    /\ ~QuadCompareFreed(seq[k], seq[k + 1])
    /\ sord_quad_compare(seq[k], seq[k + 1]) <= 0

C37_StoredNodesAreLive ==
  status = "ok" =>
    \A o \in DOMAIN indices : \A k \in 1..Len(indices[o]) :
      NodesOf(indices[o][k]) \subseteq live

\* C38: sord_best_index returns an ordering whose index the model has, for
\* every pattern and every model sord_new can create, a pattern with the
\* graph set on a model without graph indices included.
C38_BestIndexIsMaterialized ==
  IsModel(indices) =>
    \A pat \in PatPool :
      sord_best_index(DOMAIN indices, pat).order \in DOMAIN indices

\* C39: the assertion of sord_iter_new holds on every call that sord_find and
\* sord_begin make: no search ends in the failed assertion.
C39_IterNewAssertionHolds ==
  ~(status = "abort" /\ last.op = "find")

\* C40: the URI node that is the datatype of a live literal is never dropped
\* while the literal exists: node->datatype of every live literal is a live
\* node.
C40_DatatypeOfLiteralIsLive ==
  status = "ok" =>
    \A n \in live :
      (NodeType(n) = SORD_LITERAL /\ NodeDatatype(n) # Null)
        => UriNode(NodeDatatype(n)) \in live

\* C35: sord_find, sord_begin, sord_iter_next, sord_iter_get and
\* sord_iter_end leave the model as it is (indices, n_quads, reference counts,
\* interned nodes), and a nested find iterated inside an outer iteration
\* leaves the outer iterator where it is: what it visits afterwards is what
\* it would have visited without the nested query.
C35_ReadsChangeNothing ==
  [][(status' = "ok" /\ last'.op \in {"find", "next", "nested"})
     => /\ indices' = indices
        /\ n_quads' = n_quads
        /\ refs' = refs
        /\ live' = live
        /\ last'.op = "nested"
             => /\ iter' = iter
                /\ Walk(indices', iter', <<>>) = Walk(indices, iter, <<>>)]_vars

\* A nested query was made inside an iteration that had already read a quad
\* and has more to read.
C35_NestedInsideIteration ==
  /\ status = "ok"
  /\ last.op = "nested"
  /\ iter.st = "live"
  /\ Len(seen) >= 1
  /\ ~sord_iter_end(iter)
  /\ Walk(indices, iter, <<>>).seen # <<>>

\* C36: each sord_iter_next on an iterator that is not at end moves the
\* cursor strictly forward or sets end, in every search mode and with or
\* without graph skipping, so the iteration reaches end after at most as many
\* calls as the iterated index has entries.
C36_NextMovesForwardOrEnds ==
  [][last'.op = "next"
     => /\ status' = "ok"
        /\ iter'.end \/ iter'.cur > iter.cur
        /\ iter'.cur <= Len(indices[iter.order]) + 1
        /\ Len(seen') <= Len(indices[iter.order])]_vars

====
